---- MODULE Spec2Model ----
(***************************************************************************)
(* A model of osmnx/projection.py: project_gdf and project_graph.          *)
(*                                                                         *)
(* Representation.                                                         *)
(*  - A CRS is a record [proj, zone]; NoneCRS stands for Python's None.    *)
(*  - A Python dict is a function whose DOMAIN is the set of its keys.     *)
(*  - A geometry is a sequence of coordinate pairs <<x, y>> (a Point has   *)
(*    one pair, a LineString two or more).  Geographic coordinates are     *)
(*    whole degrees.                                                       *)
(*  - A GeoDataFrame is [crs, index, rows]: rows[i] is the dict of row i   *)
(*    over the frame's columns, index[i] its label.                        *)
(*  - A graph object is [graph, node, edges]: graph is the graph-level     *)
(*    dict, node maps the node ids 1..n (insertion order) to their dicts,  *)
(*    edges is the sequence of [u, v, key, attr] in the order              *)
(*    G.edges(keys=True, data=True) yields them.                           *)
(*  - Graph objects live in heap; G and the return value are references    *)
(*    (indexes into heap), as Python names are.                            *)
(***************************************************************************)
EXTENDS Integers, Sequences, FiniteSets, TLC

VARIABLES
    heap,    \* the graph objects allocated so far
    cur,     \* reference to the graph the caller passes to the next call
    pre,     \* value of the input graph just before the last call
    last,    \* the last project_graph call: its arguments and outcome
    first,   \* value of the graph the caller started with
    calls,   \* number of project_graph calls made
    nOk,     \* number of those that returned a graph
    gdf,     \* the table handed to a stand-alone project_gdf call
    args,    \* its to_crs / to_latlong arguments
    out      \* its outcome

vars == <<heap, cur, pre, last, first, calls, nOk, gdf, args, out>>

----------------------------------------------------------------------------
(* Bounds of the model.                                                    *)

MaxNodes == 2
MaxEdges == 2
MaxCalls == 2
MaxRows == 2

----------------------------------------------------------------------------
(* Python values.                                                          *)

NoneCRS == [proj |-> "None", zone |-> 0]

\* pandas fills a cell no record supplies with NaN; attribute values of the
\* model are integers, and NaN is one no attribute takes.
NaN == -999999

EmptyDict == [k \in {} |-> 0]

Put(d, k, v) == [n \in (DOMAIN d) \cup {k} |-> IF n = k THEN v ELSE d[n]]

Del(d, k) == [n \in (DOMAIN d) \ {k} |-> d[n]]

\* dict.update
Update(d, e) == [n \in (DOMAIN d) \cup (DOMAIN e) |-> IF n \in DOMAIN e THEN e[n] ELSE d[n]]

----------------------------------------------------------------------------
(* Coordinate reference systems and the transform library.                 *)

default_crs == [proj |-> "longlat", zone |-> 0]

UTM(zone) == [proj |-> "utm", zone |-> zone]

is_projected(crs) == crs.proj # "longlat"

\* PROJ accepts +proj=utm only with a zone in 1..60.
ValidCRS(crs) == crs.proj = "utm" => crs.zone \in 1..60

\* Central meridian of a UTM zone, in degrees.
CentralMeridian(zone) == 6 * zone - 183

\* Stand-in for the library's projection mathematics: a zone-dependent
\* affine map (100 units per degree, false easting 500), so that different
\* CRSs give different coordinates and a forward/backward pair round-trips.
ToLngLat(crs, p) ==
    IF crs.proj = "utm"
    THEN <<((p[1] - 500) \div 100) + CentralMeridian(crs.zone), p[2] \div 100>>
    ELSE p

FromLngLat(crs, p) ==
    IF crs.proj = "utm"
    THEN <<(p[1] - CentralMeridian(crs.zone)) * 100 + 500, p[2] * 100>>
    ELSE p

Transform(src, dst, p) == IF src = dst THEN p ELSE FromLngLat(dst, ToLngLat(src, p))

TransformGeom(src, dst, geom) == [i \in DOMAIN geom |-> Transform(src, dst, geom[i])]

----------------------------------------------------------------------------
(* project_gdf                                                             *)

Raise(gdf_, kind) ==
    [err |-> kind, gdf |-> gdf_, dest |-> NoneCRS, utm_zone |-> 0, transforms |-> 0]

\* gdf.to_crs(dst): every geometry transformed, the frame's crs set to dst.
to_crs_gdf(gdf_, dst, zone) ==
    IF ~ValidCRS(dst)
    THEN [err |-> "CRSError", gdf |-> gdf_, dest |-> dst, utm_zone |-> zone, transforms |-> 0]
    ELSE [err |-> "",
          gdf |-> [crs |-> dst,
                   index |-> gdf_.index,
                   rows |-> [i \in DOMAIN gdf_.rows |->
                               Put(gdf_.rows[i], "geometry",
                                   TransformGeom(gdf_.crs, dst, gdf_.rows[i].geometry))]],
          dest |-> dst, utm_zone |-> zone, transforms |-> 1]

RECURSIVE SumX(_)
SumX(points) ==
    IF points = {} THEN 0
    ELSE LET p == CHOOSE q \in points : TRUE IN p[1] + SumX(points \ {p})

\* gdf["geometry"].unary_union.centroid.x for a frame of Points: the union
\* keeps each distinct point once and its centroid is their mean, kept
\* here as the exact fraction num / den.
avg_lng(gdf_) ==
    LET points == {gdf_.rows[i].geometry[1] : i \in DOMAIN gdf_.rows}
    IN  [num |-> SumX(points), den |-> Cardinality(points)]

\* int(math.floor((avg_lng + 180) / 6.0) + 1)
utm_zone(avg) == ((avg.num + 180 * avg.den) \div (6 * avg.den)) + 1

InvalidGdf(gdf_) == gdf_.crs = NoneCRS \/ Len(gdf_.rows) < 1

\* the automatic branch
auto_utm(gdf_) ==
    IF is_projected(gdf_.crs)
    THEN Raise(gdf_, "ValueError")
    ELSE LET zone == utm_zone(avg_lng(gdf_))
         IN  to_crs_gdf(gdf_, UTM(zone), zone)

project_gdf_latlong_unchecked(gdf_, to_crs, to_latlong) ==
    IF to_latlong THEN to_crs_gdf(gdf_, default_crs, 0)
    ELSE IF InvalidGdf(gdf_) THEN Raise(gdf_, "ValueError")
    ELSE IF to_crs # NoneCRS THEN to_crs_gdf(gdf_, to_crs, 0)
    ELSE auto_utm(gdf_)

project_gdf_to_crs_first(gdf_, to_crs, to_latlong) ==
    IF InvalidGdf(gdf_) THEN Raise(gdf_, "ValueError")
    ELSE IF to_crs # NoneCRS THEN to_crs_gdf(gdf_, to_crs, 0)
    ELSE IF to_latlong THEN to_crs_gdf(gdf_, default_crs, 0)
    ELSE auto_utm(gdf_)

project_gdf(gdf_, to_crs, to_latlong) ==
    IF InvalidGdf(gdf_) THEN Raise(gdf_, "ValueError")
    ELSE IF to_latlong THEN to_crs_gdf(gdf_, default_crs, 0)
    ELSE IF to_crs # NoneCRS THEN to_crs_gdf(gdf_, to_crs, 0)
    ELSE auto_utm(gdf_)

----------------------------------------------------------------------------
(* The graph library: copy, clear, add_edge.                               *)

EmptyGraph == [graph |-> EmptyDict, node |-> <<>>, edges |-> <<>>]

copy_alias(h, G) == [heap |-> h, ref |-> G]

\* G.copy(): a new graph object whose graph, node and edge dicts are copies.
copy(h, G) == [heap |-> Append(h, h[G]), ref |-> Len(h) + 1]

\* MultiDiGraph.new_edge_key: the number of edges already joining u to v,
\* increased until it is a key none of them uses.
new_edge_key(edges, u, v) ==
    LET keydict == {edges[i].key : i \in {j \in DOMAIN edges : edges[j].u = u /\ edges[j].v = v}}
        n == Cardinality(keydict)
    IN  CHOOSE k \in n..(2 * n) :
            /\ k \notin keydict
            /\ \A m \in n..(2 * n) : m \notin keydict => k <= m

\* G_proj.add_edge(u, v, **attributes): an entry named "key" of attributes
\* binds add_edge's key parameter and is not stored; without one the key is
\* new_edge_key's.  An edge already present under (u, v, key) has its dict
\* updated in place; otherwise the edge is added after the existing ones
\* (the rebuild adds edges in the order the original iterates them).
add_edge(edges, u, v, attributes) ==
    LET key  == IF "key" \in DOMAIN attributes THEN attributes["key"]
                ELSE new_edge_key(edges, u, v)
        attr == Del(attributes, "key")
        same == {i \in DOMAIN edges : edges[i].u = u /\ edges[i].v = v /\ edges[i].key = key}
    IN  IF same # {}
        THEN [i \in DOMAIN edges |->
                IF i \in same THEN [edges[i] EXCEPT !.attr = Update(@, attr)] ELSE edges[i]]
        ELSE Append(edges, [u |-> u, v |-> v, key |-> key, attr |-> attr])

----------------------------------------------------------------------------
(* project_graph                                                           *)

GraphRaise(h, kind) == [err |-> kind, heap |-> h, ret |-> 0]

\* gpd.GeoDataFrame(list(data), index=nodes): one row per node over the
\* union of the nodes' attribute names, NaN where a node lacks one.
nodes_frame(obj) ==
    LET columns == UNION {DOMAIN obj.node[n] : n \in DOMAIN obj.node}
    IN  [crs |-> obj.graph["crs"],
         index |-> [n \in DOMAIN obj.node |-> n],
         rows |-> [n \in DOMAIN obj.node |->
                     [c \in columns |-> IF c \in DOMAIN obj.node[n] THEN obj.node[n][c] ELSE NaN]]]

Columns(frame) == UNION {DOMAIN frame.rows[i] : i \in DOMAIN frame.rows}

lonlat_always(columns) == TRUE

\* the guard of the lon/lat copy
lonlat_missing(columns) == "lon" \notin columns \/ "lat" \notin columns

\* gdf_nodes["lon"] = gdf_nodes["x"]; gdf_nodes["lat"] = gdf_nodes["y"]
freeze_lonlat(frame) ==
    IF lonlat_missing(Columns(frame))
    THEN [frame EXCEPT !.rows =
            [i \in DOMAIN frame.rows |->
                Put(Put(frame.rows[i], "lon", frame.rows[i]["x"]), "lat", frame.rows[i]["y"])]]
    ELSE frame

\* gdf_nodes["geometry"] = Point(row["x"], row["y"])
point_geometry(frame) ==
    [frame EXCEPT !.rows =
        [i \in DOMAIN frame.rows |->
            Put(frame.rows[i], "geometry", << <<frame.rows[i]["x"], frame.rows[i]["y"]>> >>)]]

\* x and y read back from the projected points, the geometry column dropped
extract_xy(frame) ==
    [frame EXCEPT !.rows =
        [i \in DOMAIN frame.rows |->
            Del(Put(Put(frame.rows[i], "x", frame.rows[i]["geometry"][1][1]),
                    "y", frame.rows[i]["geometry"][1][2]), "geometry")]]

HasGeometry(e) == "geometry" \in DOMAIN e.attr

\* the edges table: one row u, v, key, geometry per edge with a geometry
edges_frame(obj) ==
    LET with == SelectSeq(obj.edges, HasGeometry)
    IN  [crs |-> obj.graph["crs"],
         index |-> [i \in DOMAIN with |-> i - 1],
         rows |-> [i \in DOMAIN with |->
                     [u |-> with[i].u, v |-> with[i].v, key |-> with[i].key,
                      geometry |-> with[i].attr["geometry"]]]]

\* gdf_edges_proj[mask]["geometry"].iloc[0]
lookup_geometry(frame, u, v, key) ==
    LET hit == {i \in DOMAIN frame.rows :
                    frame.rows[i].u = u /\ frame.rows[i].v = v /\ frame.rows[i].key = key}
        i0  == CHOOSE i \in hit : \A j \in hit : i <= j
    IN  frame.rows[i0].geometry

\* the loop re-adding the edges, from the i-th of the saved list on
RECURSIVE add_edges(_, _, _, _)
add_edges(acc, edges, frame, i) ==
    IF i > Len(edges) THEN acc
    ELSE LET e == edges[i]
             attributes == IF HasGeometry(e)
                           THEN Put(e.attr, "geometry", lookup_geometry(frame, e.u, e.v, e.key))
                           ELSE e.attr
         IN  add_edges(add_edge(acc, e.u, e.v, attributes), edges, frame, i + 1)

\* clear the copy, add back nodes and edges, set the graph attributes
rebuild(h, G, G_proj, nodes_proj, edges_proj) ==
    LET edges   == h[G_proj].edges
        cleared == [h EXCEPT ![G_proj] = EmptyGraph]
        filled  == [cleared EXCEPT ![G_proj] =
                      [graph |-> Put(EmptyDict, "crs", nodes_proj.crs),
                       node  |-> [n \in DOMAIN nodes_proj.index |-> nodes_proj.rows[n]],
                       edges |-> add_edges(<<>>, edges, edges_proj, 1)]]
    IN  IF "streets_per_node" \in DOMAIN filled[G].graph
        THEN [filled EXCEPT ![G_proj].graph =
                Put(@, "streets_per_node", filled[G].graph["streets_per_node"])]
        ELSE filled

project_graph(h, G, to_crs) ==
    LET c      == copy(h, G)
        G_proj == c.ref
        obj    == c.heap[G_proj]
    IN  IF Len(obj.node) = 0
        THEN GraphRaise(h, "ValueError")
        ELSE
        LET rn == project_gdf(point_geometry(freeze_lonlat(nodes_frame(obj))), to_crs, FALSE)
        IN  IF rn.err # ""
            THEN GraphRaise(h, rn.err)
            ELSE
            LET gdf_edges == edges_frame(obj)
                re == IF Len(gdf_edges.rows) > 0
                      THEN project_gdf(gdf_edges, rn.gdf.crs, FALSE)
                      ELSE Raise(gdf_edges, "")
            IN  IF re.err # ""
                THEN GraphRaise(h, re.err)
                ELSE [err  |-> "",
                      heap |-> rebuild(c.heap, G, G_proj, extract_xy(rn.gdf), re.gdf),
                      ret  |-> G_proj]

----------------------------------------------------------------------------
(* Stand-alone calls of project_gdf on tables of points.                   *)

\* Longitudes of the sample points: both ends of the range, and San
\* Francisco, Paris and a point just inside the eastern end.
Lngs == {-180, -122, 2, 179, 180}

NoGdf == [crs |-> NoneCRS, index |-> <<>>, rows |-> <<>>]

NoArgs == [to_crs |-> NoneCRS, to_latlong |-> FALSE]

NoOut == [called |-> FALSE, err |-> "", gdf |-> NoGdf, dest |-> NoneCRS,
          utm_zone |-> 0, transforms |-> 0]

PointTables ==
    UNION {[1..n -> Lngs] : n \in 0..MaxRows}

TableOf(crs, xs) ==
    [crs |-> crs,
     index |-> [i \in DOMAIN xs |-> i],
     rows |-> [i \in DOMAIN xs |-> [geometry |-> << <<xs[i], 45>> >>]]]

SourceCRSs == {NoneCRS, default_crs, UTM(31)}

DestCRSs == {NoneCRS, default_crs, UTM(31)}

NoGraphState ==
    /\ heap = <<>>
    /\ cur = 0
    /\ pre = 0
    /\ last = 0
    /\ first = 0
    /\ calls = 0
    /\ nOk = 0

InitGdf ==
    /\ NoGraphState
    /\ \E crs \in SourceCRSs, xs \in PointTables : gdf = TableOf(crs, xs)
    /\ \E d \in DestCRSs, ll \in BOOLEAN : args = [to_crs |-> d, to_latlong |-> ll]
    /\ out = NoOut

ProjectGdf ==
    /\ ~out.called
    /\ LET r == project_gdf(gdf, args.to_crs, args.to_latlong)
       IN  out' = [called |-> TRUE, err |-> r.err, gdf |-> r.gdf, dest |-> r.dest,
                   utm_zone |-> r.utm_zone, transforms |-> r.transforms]
    /\ UNCHANGED <<heap, cur, pre, last, first, calls, nOk, gdf, args>>

NextGdf == ProjectGdf

SpecGdf == InitGdf /\ [][NextGdf]_vars

----------------------------------------------------------------------------
(* Repeated calls of project_graph, each on the graph the last one         *)
(* returned (or on the same graph again after an error).                   *)

\* Node n of a sample graph: x, y and the optional attributes in optional.
NodeDict(n, optional) ==
    [k \in {"x", "y"} \cup optional |->
        CASE k = "x" -> 13 * n - 11
          [] k = "y" -> 45 + n
          [] k = "lon" -> 7
          [] k = "lat" -> 8
          [] OTHER -> 1]

\* The keys of m parallel edges in the order they were inserted: 0, 1, ..;
\* 1, 2, .. (key 0 was removed, or never used); .., 1, 0.
KeyOrders(m) == {[i \in 1..m |-> i - 1], [i \in 1..m |-> i], [i \in 1..m |-> m - i]}

\* An edge from node 1 to node n under key; osmid tells the edges apart, a
\* geometry is a line from 1 to n through a point of its own.  keyattr says
\* whether the edge's dict has an entry named "key": none, the edge's own
\* key, or 0 on every edge.
EdgeOf(n, key, geom, keyattr) ==
    LET base  == [osmid |-> 100 + key]
        withg == IF geom
                 THEN Put(base, "geometry", << <<2, 46>>, <<3 + key, 46>>, <<13 * n - 11, 45 + n>> >>)
                 ELSE base
    IN  [u |-> 1, v |-> n, key |-> key,
         attr |-> CASE keyattr = "own" -> Put(withg, "key", key)
                    [] keyattr = "zero" -> Put(withg, "key", 0)
                    [] OTHER -> withg]

SampleGraph(crs, extras, optional, keys, geoms, keyattr) ==
    [graph |-> [k \in {"crs"} \cup extras |->
                    CASE k = "crs" -> crs
                      [] k = "name" -> "city"
                      [] OTHER -> [n \in DOMAIN optional |-> 4]],
     node  |-> [n \in DOMAIN optional |-> NodeDict(n, optional[n])],
     edges |-> [i \in DOMAIN keys |-> EdgeOf(Len(optional), keys[i], geoms[i], keyattr)]]

Plain(n) == [i \in 1..n |-> {}]

\* Graphs without edges whose nodes carry any optional attributes.
NodeVariants ==
    UNION {{SampleGraph(crs, {}, optional, <<>>, <<>>, "none") :
                crs \in SourceCRSs,
                optional \in [1..n -> SUBSET {"lon", "lat", "highway"}]} :
           n \in 0..MaxNodes}

\* Graphs of plain nodes joined by up to MaxEdges parallel edges.
EdgeVariants ==
    UNION {{SampleGraph(crs, {}, Plain(nm[1]), keys, geoms, keyattr) :
                crs \in SourceCRSs,
                keys \in KeyOrders(nm[2]),
                geoms \in [1..nm[2] -> BOOLEAN],
                keyattr \in {"none", "own", "zero"}} :
           nm \in (1..MaxNodes) \X (1..MaxEdges)}

\* Graphs of plain nodes with any further graph-level attributes.
AttrVariants ==
    {SampleGraph(crs, extras, Plain(n), <<>>, <<>>, "none") :
        crs \in SourceCRSs,
        extras \in SUBSET {"name", "streets_per_node"},
        n \in 0..MaxNodes}

SampleGraphs == NodeVariants \cup EdgeVariants \cup AttrVariants

NoCall == [status |-> "none", G |-> 0, to_crs |-> NoneCRS, ret |-> 0]

Init ==
    /\ \E g \in SampleGraphs :
        /\ heap = <<g>>
        /\ first = g
        /\ pre = g
    /\ cur = 1
    /\ last = NoCall
    /\ calls = 0
    /\ nOk = 0
    /\ gdf = NoGdf
    /\ args = NoArgs
    /\ out = NoOut

ProjectGraph(to_crs) ==
    /\ calls < MaxCalls
    /\ LET r == project_graph(heap, cur, to_crs)
       IN  /\ heap' = r.heap
           /\ last' = [status |-> IF r.err = "" THEN "ok" ELSE "error",
                       G |-> cur, to_crs |-> to_crs, ret |-> r.ret]
           /\ cur' = IF r.err = "" THEN r.ret ELSE cur
           /\ nOk' = IF r.err = "" THEN nOk + 1 ELSE nOk
    /\ pre' = heap[cur]
    /\ calls' = calls + 1
    /\ UNCHANGED <<first, gdf, args, out>>

Next == \E to_crs \in DestCRSs : ProjectGraph(to_crs)

Spec == Init /\ [][Next]_vars

----------------------------------------------------------------------------
(* Properties.                                                             *)

Returned == last.status = "ok"

Failed == last.status = "error"

\* the graph the last call returned
Result == heap[last.ret]

EdgeIds(g) == {<<g.edges[i].u, g.edges[i].v, g.edges[i].key>> : i \in DOMAIN g.edges}

\* C1: every graph-level attribute of G other than crs is in the returned
\* graph with the value it had in G.
C1_GraphAttrsKept ==
    Returned =>
        \A k \in (DOMAIN pre.graph) \ {"crs"} :
            k \in DOMAIN Result.graph /\ Result.graph[k] = pre.graph[k]

\* C2: the returned graph has exactly the edge identities (source, target,
\* key) of G.
C2_EdgeIdsKept == Returned => EdgeIds(Result) = EdgeIds(pre)

\* C3: an edge of G with a geometry is, under the same (source, target,
\* key), an edge of the result whose geometry is that geometry reprojected
\* from G's CRS into the result's crs; an edge of G without a geometry has
\* none under its triple in the result.
C3_EdgeGeometryByTriple ==
    Returned =>
        \A i \in DOMAIN pre.edges :
            LET e    == pre.edges[i]
                same == {j \in DOMAIN Result.edges :
                            /\ Result.edges[j].u = e.u
                            /\ Result.edges[j].v = e.v
                            /\ Result.edges[j].key = e.key}
            IN  IF HasGeometry(e)
                THEN \E j \in same :
                        /\ HasGeometry(Result.edges[j])
                        /\ Result.edges[j].attr["geometry"] =
                             TransformGeom(pre.graph["crs"], Result.graph["crs"], e.attr["geometry"])
                ELSE \A j \in same : ~HasGeometry(Result.edges[j])

\* every edge came back at its place under the key it had
KeysKept ==
    /\ Len(Result.edges) = Len(pre.edges)
    /\ \A i \in DOMAIN pre.edges : Result.edges[i].key = pre.edges[i].key

\* The statement of C3 for the calls that keep every edge's key: the
\* geometries themselves are matched and reprojected as C3 says.
EdgeGeometryByTripleIfKeysKept == (Returned /\ KeysKept) => C3_EdgeGeometryByTriple

Spatial == {"x", "y", "lon", "lat"}

\* C4: apart from x, y, lon and lat, every node of the result has exactly
\* the attribute names it had in G, with the same values.
C4_NodeAttrsKept ==
    Returned =>
        /\ DOMAIN Result.node = DOMAIN pre.node
        /\ \A n \in DOMAIN pre.node :
            /\ (DOMAIN Result.node[n]) \ Spatial = (DOMAIN pre.node[n]) \ Spatial
            /\ \A k \in (DOMAIN pre.node[n]) \ Spatial : Result.node[n][k] = pre.node[n][k]

ValidInput == ~InvalidGdf(gdf)

\* C5: a table without a CRS or without records makes project_gdf raise
\* ValueError whatever to_crs and to_latlong are, with no destination
\* chosen and no transform invoked.
C5_InvalidInputRejected ==
    (out.called /\ ~ValidInput) =>
        /\ out.err = "ValueError"
        /\ out.dest = NoneCRS
        /\ out.transforms = 0

C5_Witness ==
    /\ out.called
    /\ Len(gdf.rows) = 0
    /\ gdf.crs # NoneCRS
    /\ args.to_latlong
    /\ args.to_crs # NoneCRS
    /\ out.err = "ValueError"

\* z is floor((avg + 180) / 6) + 1 for the fraction avg
IsZoneOf(z, avg) ==
    /\ 6 * (z - 1) * avg.den <= avg.num + 180 * avg.den
    /\ avg.num + 180 * avg.den < 6 * z * avg.den

\* C6: on a non-empty table with a CRS the destination is the default
\* geographic CRS if to_latlong is set (to_crs given or not), else to_crs
\* if given, else the UTM CRS of the computed zone, ValueError being raised
\* in that last case exactly when the source CRS is projected.
C6_DestinationOrder ==
    (out.called /\ ValidInput) =>
        /\ args.to_latlong =>
            out.err = "" /\ out.gdf.crs = default_crs
        /\ (~args.to_latlong /\ args.to_crs # NoneCRS) =>
            out.err = "" /\ out.gdf.crs = args.to_crs
        /\ (~args.to_latlong /\ args.to_crs = NoneCRS) =>
            /\ out.err = "ValueError" <=> is_projected(gdf.crs)
            /\ ~is_projected(gdf.crs) =>
                /\ out.dest.proj = "utm"
                /\ IsZoneOf(out.dest.zone, avg_lng(gdf))
                /\ out.err = "" => out.gdf.crs = out.dest

C6_Witness ==
    /\ out.called
    /\ ValidInput
    /\ is_projected(gdf.crs)
    /\ args.to_latlong
    /\ args.to_crs = UTM(31)
    /\ out.err = ""
    /\ out.gdf.crs = default_crs

\* C7: for a geographic table whose centroid longitude is in [-180, 180]
\* the automatically computed zone is in 1..60 and is the zone of the
\* destination.
C7_ZoneInRange ==
    (/\ out.called
     /\ ValidInput
     /\ gdf.crs = default_crs
     /\ ~args.to_latlong
     /\ args.to_crs = NoneCRS
     /\ -180 * avg_lng(gdf).den <= avg_lng(gdf).num
     /\ avg_lng(gdf).num <= 180 * avg_lng(gdf).den) =>
        /\ out.utm_zone \in 1..60
        /\ out.dest = UTM(out.utm_zone)

\* C8: a call leaves its input graph, and the graph the caller started
\* with, as they were, whether it returns or raises; what it returns is a
\* rebuilt graph other than its input, and it returns nothing when it
\* raises.
C8_InputUnchanged ==
    /\ heap[1] = first
    /\ last.status # "none" => heap[last.G] = pre
    /\ Failed => last.ret = 0
    /\ Returned =>
        /\ last.ret # last.G
        /\ DOMAIN Result.node = DOMAIN pre.node
        /\ Result.node # <<>>

\* a call that returned a reprojected graph with edge geometries, followed
\* by a call on that graph that raised
C8_Witness ==
    /\ Failed
    /\ calls = 2
    /\ nOk = 1
    /\ \E i \in DOMAIN pre.edges : HasGeometry(pre.edges[i])
    /\ pre.graph["crs"] # first.graph["crs"]
    /\ heap[last.G] = pre
    /\ heap[1] = first

\* C9: a lon or lat a node had before the call has the same value in the
\* result.
C9_LonLatNotOverwritten ==
    Returned =>
        \A n \in DOMAIN pre.node :
            \A k \in {"lon", "lat"} \cap DOMAIN pre.node[n] :
                Result.node[n][k] = pre.node[n][k]

\* the caller started from a geographic graph none of whose nodes had lon
\* or lat
StartedUnfrozen ==
    /\ first.graph["crs"] = default_crs
    /\ \A n \in DOMAIN first.node : {"lon", "lat"} \cap DOMAIN first.node[n] = {}

\* C10: from such a start, after the first successful call and after every
\* later one, each node's lon and lat are its original x and y.
C10_FrozenLonLat ==
    (StartedUnfrozen /\ nOk >= 1) =>
        /\ DOMAIN heap[cur].node = DOMAIN first.node
        /\ \A n \in DOMAIN first.node :
            /\ {"lon", "lat"} \subseteq DOMAIN heap[cur].node[n]
            /\ heap[cur].node[n]["lon"] = first.node[n]["x"]
            /\ heap[cur].node[n]["lat"] = first.node[n]["y"]

C10_Witness ==
    /\ StartedUnfrozen
    /\ nOk >= 2
    /\ pre.graph["crs"] # default_crs
    /\ \E n \in DOMAIN heap[cur].node :
        /\ heap[cur].node[n]["lon"] = first.node[n]["x"]
        /\ heap[cur].node[n]["x"] # pre.node[n]["x"]
        /\ pre.node[n]["x"] # first.node[n]["x"]

====
